---------------------------- MODULE Spec2Model ----------------------------
(***************************************************************************)
(* Model of src/PDF_lib.py: the PDF extraction comparison harness.         *)
(*                                                                         *)
(* Spec          one run of run_pdf_extraction_pipeline, entered either    *)
(*               through the __main__ block or by a direct call.           *)
(* SpecAdapters  the extractor adapters as functions of what their backend *)
(*               library does (per-page results and exceptions).           *)
(*                                                                         *)
(* Strings the code inspects (str.strip, concatenation) are sequences of   *)
(* one-character strings.  Python values an adapter can hand back are      *)
(* records [tag, s]: tag "none" is None, "str" a str with characters s,    *)
(* "other" any other object whose str() is computed by PyStr.              *)
(* The elapsed wall-clock time of a record (time_taken) is not modelled.   *)
(***************************************************************************)
EXTENDS Naturals, Sequences, FiniteSets

VARIABLES
    pdf_path,          \* the input: [exists, ext]
    methods_to_test,   \* the ordered request list
    avail,             \* the four *_AVAILABLE flags, fixed at import time
    pc,                \* position in the program
    idx,               \* index of the next entry of methods_to_test
    method_output_dir, \* "unset", "run" (per-run subdirectory) or "root" (output_dir)
    created,           \* directories this run created via os.makedirs
    files,             \* output files on disk: path -> content written
    writes,            \* path -> number of times this run wrote it
    results,           \* the summary dict: method name -> result record
    calls,             \* method name -> number of adapter invocations (spy)
    last,              \* method name -> what its latest invocation did (spy)
    summary_file,      \* "absent", or "saved" once json.dump succeeded
    returned,          \* what the pipeline returned to its caller
    a_method,          \* SpecAdapters: the adapter under test
    a_backend,         \* SpecAdapters: what the backend does
    a_result           \* SpecAdapters: what the adapter returned

vars == <<pdf_path, methods_to_test, avail, pc, idx, method_output_dir, created,
          files, writes, results, calls, last, summary_file, returned,
          a_method, a_backend, a_result>>

pipeVars == <<pdf_path, methods_to_test, avail, pc, idx, method_output_dir,
              created, files, writes, results, calls, last, summary_file, returned>>

adapterVars == <<a_method, a_backend, a_result>>

---------------------------------------------------------------------------
(* Bounds *)

MaxReq == 2

MaxPages == 2

---------------------------------------------------------------------------
(* Python values and strings *)

None == [tag |-> "none", s |-> << >>]

Str(s) == [tag |-> "str", s |-> s]

Other(s) == [tag |-> "other", s |-> s]

IsSpace(c) == c \in {" ", "\n"}

RECURSIVE LStrip(_)
LStrip(s) == IF s # << >> /\ IsSpace(Head(s)) THEN LStrip(Tail(s)) ELSE s

RECURSIVE RStrip(_)
RStrip(s) ==
    IF s # << >> /\ IsSpace(s[Len(s)]) THEN RStrip(SubSeq(s, 1, Len(s) - 1)) ELSE s

Strip(s) == RStrip(LStrip(s))

PyStr(v) ==
    CASE v.tag = "str" -> v.s
      [] v.tag = "none" -> <<"N", "o", "n", "e">>
      [] OTHER -> <<"[">> \o v.s \o <<"]">>

---------------------------------------------------------------------------
(* The method registry *)

EXTRACTION_METHODS ==
    {"pypdf", "pymupdf", "pypdf_visitor", "ocr", "unstructured_fast",
     "unstructured_ocr", "pymupdf4llm", "alchemark"}

MARKDOWN_OUTPUT_METHODS == {"pymupdf4llm", "alchemark"}

Flags == {"PYTESSERACT", "UNSTRUCTURED", "PYMUPDF4LLM", "ALCHEMARK"}

\* str.startswith over the method-name vocabulary of the model
StartsWith(name, prefix) ==
    CASE prefix = "unstructured" ->
            name \in {"unstructured_fast", "unstructured_ocr", "unstructured_hires"}
      [] prefix = "alchemark" -> name \in {"alchemark"}
      [] OTHER -> name = prefix

\* mutant: the unstructured check compares the whole name instead of its prefix
DependenciesNotMetExactName(m) ==
    \/ m = "ocr" /\ ~avail["PYTESSERACT"]
    \/ m = "unstructured" /\ ~avail["UNSTRUCTURED"]
    \/ m = "pymupdf4llm" /\ ~avail["PYMUPDF4LLM"]
    \/ StartsWith(m, "alchemark") /\ ~avail["ALCHEMARK"]

\* the availability checks at the top of the loop body
DependenciesNotMet(m) ==
    \/ m = "ocr" /\ ~avail["PYTESSERACT"]
    \/ StartsWith(m, "unstructured") /\ ~avail["UNSTRUCTURED"]
    \/ m = "pymupdf4llm" /\ ~avail["PYMUPDF4LLM"]
    \/ StartsWith(m, "alchemark") /\ ~avail["ALCHEMARK"]


\* the names a request list is drawn from: an always-available text method,
\* a text method and a Markdown method behind availability flags, and the
\* name the registry has commented out (unrecognized)
ReqNames == {"pypdf", "unstructured_ocr", "alchemark", "unstructured_hires"}

---------------------------------------------------------------------------
(* Result records and output paths *)

NoFile == [dir |-> "none", method |-> "", ext |-> ""]

\* mutant: every output file gets the text extension
FileExtensionAlwaysTxt(m) == "txt"

FileExtension(m) == IF m \in MARKDOWN_OUTPUT_METHODS THEN "md" ELSE "txt"

\* os.path.join(method_output_dir, f"{method_name}.{file_extension}")
OutputFilepath(dir, m) == [dir |-> dir, method |-> m, ext |-> FileExtension(m)]

DEPENDENCIES_NOT_MET == <<"Dependencies not met">>

DependencyRecord ==
    [output_file |-> NoFile, success |-> FALSE, error |-> DEPENDENCIES_NOT_MET]

\* mutant: the dict is rebound to a fresh one-entry dict
PutFresh(d, k, v) == [x \in {k} |-> v]

\* d[k] = v on a Python dict
Put(d, k, v) == [x \in DOMAIN d \cup {k} |-> IF x = k THEN v ELSE d[x]]

Empty == [x \in {} |-> 0]

---------------------------------------------------------------------------
(* What calling a registry entry can do *)

StrOutputs == { << >>, <<" ">>, <<" ", "a">> }

Raise == [kind |-> "raise", value |-> None]

Return(v) == [kind |-> "return", value |-> v]

\* the spy's entry for a method that was not invoked
Never == [out |-> [kind |-> "never", value |-> None], write |-> "none"]

AdapterOutcomes ==
    {Raise, Return(None), Return(Other(<<"a">>))} \cup {Return(Str(s)) : s \in StrOutputs}

\* the try block around the call: classification of what came back
Classify(out) ==
    IF out.kind = "raise"
    THEN [success |-> FALSE, warned |-> FALSE, output_content |-> None,
          error_message |-> <<"Unexpected error during execution">>]
    ELSE IF out.value # None
         THEN IF out.value.tag = "str" /\ Strip(out.value.s) # << >>
              THEN [success |-> TRUE, warned |-> FALSE,
                    output_content |-> out.value, error_message |-> << >>]
              ELSE IF out.value.tag = "str" /\ Strip(out.value.s) = << >>
              THEN [success |-> TRUE, warned |-> TRUE,
                    output_content |-> out.value, error_message |-> << >>]
              ELSE [success |-> FALSE, warned |-> TRUE,
                    output_content |-> Str(PyStr(out.value)),
                    error_message |-> <<"returned non-string, non-None type">>]
         ELSE [success |-> FALSE, warned |-> FALSE, output_content |-> None,
               error_message |-> <<"returned None">>]

\* whether the loop body opens and writes the output file
WritesFile(c) == c.success /\ c.output_content # None

\* mutant: the text is stripped before it is written
WrittenTextStripped(c) == Strip(PyStr(c.output_content))

\* the text handed to f.write
WrittenText(c) == PyStr(c.output_content)

\* mutant: the write-error handler forgets output_filepath = None
ResultRecordKeepsPath(c, path, wok) ==
    IF WritesFile(c)
    THEN IF wok
         THEN [output_file |-> path, success |-> TRUE, error |-> << >>]
         ELSE [output_file |-> path, success |-> FALSE,
               error |-> c.error_message \o <<" | File write error">>]
    ELSE [output_file |-> NoFile, success |-> FALSE,
          error |-> IF c.error_message = << >>
                    THEN <<"did not produce valid output or failed silently">>
                    ELSE c.error_message]

\* the record stored in results[method_name]; wok: open/write raised nothing
ResultRecord(c, path, wok) ==
    IF WritesFile(c)
    THEN IF wok
         THEN [output_file |-> path, success |-> TRUE, error |-> << >>]
         ELSE [output_file |-> NoFile, success |-> FALSE,
               error |-> c.error_message \o <<" | File write error">>]
    ELSE [output_file |-> NoFile, success |-> FALSE,
          error |-> IF c.error_message = << >>
                    THEN <<"did not produce valid output or failed silently">>
                    ELSE c.error_message]

---------------------------------------------------------------------------
(* The pipeline *)

Exts == {".PDF", ".txt"}

\* str.lower on the extensions of the model
Lower(e) == IF e = ".PDF" THEN ".pdf" ELSE e

RequestLists == UNION {[1..n -> ReqNames] : n \in 0..MaxReq}

InitPipeline ==
    /\ pdf_path \in [exists : BOOLEAN, ext : Exts]
    /\ methods_to_test \in RequestLists
    /\ avail \in [Flags -> BOOLEAN]
    /\ pc \in {"main", "call"}
    /\ idx = 1
    /\ method_output_dir = "unset"
    /\ created = {}
    /\ files = Empty
    /\ writes = Empty
    /\ results = Empty
    /\ calls = [m \in ReqNames |-> 0]
    /\ last = [m \in ReqNames |-> Never]
    /\ summary_file = "absent"
    /\ returned = "pending"

\* the __main__ block: the two checks before the call
MainRejects ==
    /\ pc = "main"
    /\ ~pdf_path.exists \/ Lower(pdf_path.ext) # ".pdf"
    /\ pc' = "done"
    /\ returned' = "not_called"
    /\ UNCHANGED adapterVars
    /\ UNCHANGED <<pdf_path, methods_to_test, avail, idx, method_output_dir, created,
                   files, writes, results, calls, last, summary_file>>

MainCalls ==
    /\ pc = "main"
    /\ pdf_path.exists
    /\ Lower(pdf_path.ext) = ".pdf"
    /\ pc' = "call"
    /\ UNCHANGED adapterVars
    /\ UNCHANGED <<pdf_path, methods_to_test, avail, idx, method_output_dir, created,
                   files, writes, results, calls, last, summary_file, returned>>

\* mutant: the missing path is reported but the function does not return
InputMissingGoesOn ==
    /\ pc = "call"
    /\ ~pdf_path.exists
    /\ pc' = "mkdir"
    /\ UNCHANGED adapterVars
    /\ UNCHANGED <<pdf_path, methods_to_test, avail, idx, method_output_dir, created,
                   files, writes, results, calls, last, summary_file, returned>>

\* run_pdf_extraction_pipeline: the check of the input path
InputMissing ==
    /\ pc = "call"
    /\ ~pdf_path.exists
    /\ pc' = "done"
    /\ returned' = "null"
    /\ UNCHANGED adapterVars
    /\ UNCHANGED <<pdf_path, methods_to_test, avail, idx, method_output_dir, created,
                   files, writes, results, calls, last, summary_file>>

InputFound ==
    /\ pc = "call"
    /\ pdf_path.exists
    /\ pc' = "mkdir"
    /\ UNCHANGED adapterVars
    /\ UNCHANGED <<pdf_path, methods_to_test, avail, idx, method_output_dir, created,
                   files, writes, results, calls, last, summary_file, returned>>

\* the output directory: dirExists, mkOk, rootExists, rootOk are what the
\* file system answers to os.path.exists and os.makedirs
PrepareOutputDir ==
    /\ pc = "mkdir"
    /\ \E dirExists \in BOOLEAN, mkOk \in BOOLEAN, rootExists \in BOOLEAN, rootOk \in BOOLEAN :
         IF dirExists
         THEN /\ method_output_dir' = "run"
              /\ created' = created
              /\ pc' = "loop"
              /\ returned' = returned
         ELSE IF mkOk
         THEN /\ method_output_dir' = "run"
              /\ created' = created \cup {"run"}
              /\ pc' = "loop"
              /\ returned' = returned
         ELSE IF rootExists
         THEN /\ method_output_dir' = "root"
              /\ created' = created
              /\ pc' = "loop"
              /\ returned' = returned
         ELSE IF rootOk
         THEN /\ method_output_dir' = "root"
              /\ created' = created \cup {"root"}
              /\ pc' = "loop"
              /\ returned' = returned
         ELSE /\ method_output_dir' = "root"
              /\ created' = created
              /\ pc' = "done"
              /\ returned' = "null"
    /\ UNCHANGED adapterVars
    /\ UNCHANGED <<pdf_path, methods_to_test, avail, idx, files, writes, results,
                   calls, last, summary_file>>

InLoop == pc = "loop" /\ idx <= Len(methods_to_test)

method_name == methods_to_test[idx]

\* mutant: an unrecognized name is recorded as a failure instead of skipped
SkipUnrecognizedRecords ==
    /\ pc = "loop" /\ idx <= Len(methods_to_test)
    /\ methods_to_test[idx] \notin EXTRACTION_METHODS
    /\ results' = Put(results, methods_to_test[idx],
                      [output_file |-> NoFile, success |-> FALSE,
                       error |-> <<"not recognized">>])
    /\ idx' = idx + 1
    /\ UNCHANGED adapterVars
    /\ UNCHANGED <<pdf_path, methods_to_test, avail, pc, method_output_dir, created,
                   files, writes, calls, last, summary_file, returned>>

\* "not recognized. Skipping."
SkipUnrecognized ==
    /\ InLoop
    /\ method_name \notin EXTRACTION_METHODS
    /\ idx' = idx + 1
    /\ UNCHANGED adapterVars
    /\ UNCHANGED <<pdf_path, methods_to_test, avail, pc, method_output_dir, created,
                   files, writes, results, calls, last, summary_file, returned>>

\* "Dependencies not met"
SkipUnavailable ==
    /\ InLoop
    /\ method_name \in EXTRACTION_METHODS
    /\ DependenciesNotMet(method_name)
    /\ results' = Put(results, method_name, DependencyRecord)
    /\ idx' = idx + 1
    /\ UNCHANGED adapterVars
    /\ UNCHANGED <<pdf_path, methods_to_test, avail, pc, method_output_dir, created,
                   files, writes, calls, last, summary_file, returned>>

\* mutant: the call is not inside the try, so an exception leaves the function
RunMethodUnguarded ==
    /\ pc = "loop" /\ idx <= Len(methods_to_test)
    /\ methods_to_test[idx] \in EXTRACTION_METHODS
    /\ ~DependenciesNotMet(methods_to_test[idx])
    /\ \E out \in AdapterOutcomes, wok \in BOOLEAN :
         LET c == Classify(out)
             m == methods_to_test[idx]
             path == OutputFilepath(method_output_dir, m)
         IN /\ calls' = [calls EXCEPT ![m] = @ + 1]
            /\ last' = [last EXCEPT ![m] =
                            [out |-> out,
                             write |-> IF ~WritesFile(c) THEN "none"
                                       ELSE IF wok THEN "ok" ELSE "failed"]]
            /\ IF WritesFile(c) /\ wok
               THEN /\ files' = Put(files, path, WrittenText(c))
                    /\ writes' = Put(writes, path,
                                     IF path \in DOMAIN writes THEN writes[path] + 1 ELSE 1)
               ELSE UNCHANGED <<files, writes>>
            /\ IF out.kind = "raise"
               THEN /\ pc' = "done"
                    /\ returned' = "exception"
                    /\ UNCHANGED <<results, idx>>
               ELSE /\ results' = Put(results, m, ResultRecord(c, path, wok))
                    /\ idx' = idx + 1
                    /\ UNCHANGED <<pc, returned>>
    /\ UNCHANGED adapterVars
    /\ UNCHANGED <<pdf_path, methods_to_test, avail, method_output_dir, created,
                   summary_file>>

\* one full iteration that invokes the adapter, writes the file and records
RunMethod ==
    /\ InLoop
    /\ method_name \in EXTRACTION_METHODS
    /\ ~DependenciesNotMet(method_name)
    /\ \E out \in AdapterOutcomes, wok \in BOOLEAN :
         LET c == Classify(out)
             path == OutputFilepath(method_output_dir, method_name)
         IN /\ calls' = [calls EXCEPT ![method_name] = @ + 1]
            /\ last' = [last EXCEPT ![method_name] =
                            [out |-> out,
                             write |-> IF ~WritesFile(c) THEN "none"
                                       ELSE IF wok THEN "ok" ELSE "failed"]]
            /\ IF WritesFile(c) /\ wok
               THEN /\ files' = Put(files, path, WrittenText(c))
                    /\ writes' = Put(writes, path,
                                     IF path \in DOMAIN writes THEN writes[path] + 1 ELSE 1)
               ELSE UNCHANGED <<files, writes>>
            /\ results' = Put(results, method_name, ResultRecord(c, path, wok))
    /\ idx' = idx + 1
    /\ UNCHANGED adapterVars
    /\ UNCHANGED <<pdf_path, methods_to_test, avail, pc, method_output_dir, created,
                   summary_file, returned>>

\* mutant: a failing json.dump is not caught and the summary is lost
FinishDumpErrorEscapes ==
    /\ pc = "loop"
    /\ idx > Len(methods_to_test)
    /\ \E dumpOk \in BOOLEAN :
         /\ summary_file' = IF dumpOk THEN "saved" ELSE "absent"
         /\ returned' = IF dumpOk THEN "results" ELSE "null"
    /\ pc' = "done"
    /\ UNCHANGED adapterVars
    /\ UNCHANGED <<pdf_path, methods_to_test, avail, idx, method_output_dir, created,
                   files, writes, results, calls, last>>

\* after the loop: the printed summary, the summary JSON, return results
Finish ==
    /\ pc = "loop"
    /\ idx > Len(methods_to_test)
    /\ \E dumpOk \in BOOLEAN : summary_file' = IF dumpOk THEN "saved" ELSE "absent"
    /\ pc' = "done"
    /\ returned' = "results"
    /\ UNCHANGED adapterVars
    /\ UNCHANGED <<pdf_path, methods_to_test, avail, idx, method_output_dir, created,
                   files, writes, results, calls, last>>

Next ==
    \/ MainRejects
    \/ MainCalls
    \/ InputMissing
    \/ InputFound
    \/ PrepareOutputDir
    \/ SkipUnrecognized
    \/ SkipUnavailable
    \/ RunMethod
    \/ Finish

Init ==
    /\ InitPipeline
    /\ a_method = "idle"
    /\ a_backend = << >>
    /\ a_result = None

Spec == Init /\ [][Next]_vars


---------------------------------------------------------------------------
(* The extractor adapters.  A backend behaviour is [open, pages]: open is  *)
(* what the library's document-level call does ("ok" or "error"), pages    *)
(* what it does for each page or element in turn: [kind |-> "text", s],    *)
(* [kind |-> "error"] (an exception) or [kind |-> "engine_missing"]        *)
(* (pytesseract.TesseractNotFoundError; for the other backends just an     *)
(* exception).  An adapter yields [ret, caught]: the value it returns and  *)
(* the number of exceptions its handlers caught on the way.                *)

PageTexts == { << >>, <<"a">> }

PageOutcomes ==
    {[kind |-> "text", s |-> s] : s \in PageTexts}
        \cup {[kind |-> "error", s |-> << >>], [kind |-> "engine_missing", s |-> << >>]}

Behaviours ==
    [open : {"ok", "error"},
     pages : UNION {[1..n -> PageOutcomes] : n \in 0..MaxPages}]

PageNo(i) ==
    CASE i = 1 -> "1" [] i = 2 -> "2" [] i = 3 -> "3" [] i = 4 -> "4" [] OTHER -> "n"

Got(v, n) == [ret |-> v, caught |-> n]

\* text += page.extract_text() or "" inside one try: any exception ends it
RECURSIVE ConcatPages(_, _, _)
ConcatPages(pages, i, text) ==
    IF i > Len(pages) THEN Got(Str(text), 0)
    ELSE IF pages[i].kind = "text" THEN ConcatPages(pages, i + 1, text \o pages[i].s)
    ELSE Got(None, 1)

extract_text_pypdf(b) ==
    IF b.open = "error" THEN Got(None, 1) ELSE ConcatPages(b.pages, 1, << >>)

extract_text_pymupdf(b) ==
    IF b.open = "error" THEN Got(None, 1) ELSE ConcatPages(b.pages, 1, << >>)

OcrErrorMarker(i) == <<"[OCR Error on page ", PageNo(i), "]", "\n">>

\* mutant: the missing engine is handled like any other page error
RECURSIVE OcrPagesEngineAsMarker(_, _, _, _)
OcrPagesEngineAsMarker(pages, i, text, caught) ==
    IF i > Len(pages) THEN Got(Str(text), caught)
    ELSE IF pages[i].kind = "text"
         THEN OcrPagesEngineAsMarker(pages, i + 1, text \o pages[i].s \o <<"\n">>, caught)
    ELSE OcrPagesEngineAsMarker(pages, i + 1, text \o OcrErrorMarker(i), caught + 1)

\* the per-image loop of extract_text_ocr
RECURSIVE OcrPages(_, _, _, _)
OcrPages(pages, i, text, caught) ==
    IF i > Len(pages) THEN Got(Str(text), caught)
    ELSE IF pages[i].kind = "text"
         THEN OcrPages(pages, i + 1, text \o pages[i].s \o <<"\n">>, caught)
    ELSE IF pages[i].kind = "engine_missing" THEN Got(None, caught + 1)
    ELSE OcrPages(pages, i + 1, text \o OcrErrorMarker(i), caught + 1)

extract_text_ocr(b) ==
    IF ~avail["PYTESSERACT"] THEN Got(None, 0)
    ELSE IF b.open = "error" THEN Got(None, 1)
    ELSE OcrPages(b.pages, 1, << >>, 0)

\* "\n\n".join([str(el) for el in elements]) inside one try
RECURSIVE JoinElements(_, _, _)
JoinElements(pages, i, text) ==
    IF i > Len(pages) THEN Got(Str(text), 0)
    ELSE IF pages[i].kind = "text"
         THEN JoinElements(pages, i + 1,
                           IF i = 1 THEN pages[i].s ELSE text \o <<"\n", "\n">> \o pages[i].s)
    ELSE Got(None, 1)

extract_text_unstructured(b) ==
    IF ~avail["UNSTRUCTURED"] THEN Got(None, 0)
    ELSE IF b.open = "error" THEN Got(None, 1)
    ELSE JoinElements(b.pages, 1, << >>)

\* the library's own result is handed back as it is
extract_markdown_pymupdf4llm(b) ==
    IF ~avail["PYMUPDF4LLM"] THEN Got(None, 0)
    ELSE IF b.open = "error" THEN Got(None, 1)
    ELSE ConcatPages(b.pages, 1, << >>)

PageBreak == <<"\n", "--- Page Break ---", "\n">>

VisitorErrorMarker(i) == <<"\n", "[Error on Page ", PageNo(i), "]", "\n">>

\* visitor_body: keep a chunk that is not blank, followed by a space
VisitorBody(text, chunk) ==
    IF chunk # << >> /\ Strip(chunk) # << >> THEN text \o chunk \o <<" ">> ELSE text

RECURSIVE VisitPages(_, _, _, _)
VisitPages(pages, i, text, caught) ==
    IF i > Len(pages) THEN [text |-> text, caught |-> caught]
    ELSE IF pages[i].kind = "text"
         THEN VisitPages(pages, i + 1, VisitorBody(text, pages[i].s) \o PageBreak, caught)
    ELSE VisitPages(pages, i + 1, text \o VisitorErrorMarker(i), caught + 1)

\* length of the whitespace run that starts at s[i]
RECURSIVE SpaceRun(_, _)
SpaceRun(s, i) == IF i <= Len(s) /\ IsSpace(s[i]) THEN 1 + SpaceRun(s, i + 1) ELSE 0

\* re.sub(r'\s{2,}', ' ', s)
RECURSIVE CollapseSpaces(_, _)
CollapseSpaces(s, i) ==
    IF i > Len(s) THEN << >>
    ELSE IF SpaceRun(s, i) >= 2 THEN <<" ">> \o CollapseSpaces(s, i + SpaceRun(s, i))
    ELSE <<s[i]>> \o CollapseSpaces(s, i + 1)

NewlinesIn(s, i, n) == Cardinality({j \in i..(i + n - 1) : s[j] = "\n"})

\* re.sub(r'(\n\s*){2,}', '\n\n', s)
RECURSIVE CollapseNewlines(_, _)
CollapseNewlines(s, i) ==
    IF i > Len(s) THEN << >>
    ELSE IF s[i] = "\n" /\ NewlinesIn(s, i, SpaceRun(s, i)) >= 2
         THEN <<"\n", "\n">> \o CollapseNewlines(s, i + SpaceRun(s, i))
    ELSE <<s[i]>> \o CollapseNewlines(s, i + 1)

CleanedText(s) == Strip(CollapseNewlines(CollapseSpaces(s, 1), 1))

extract_text_pypdf_visitor(b) ==
    IF b.open = "error" THEN Got(None, 1)
    ELSE LET v == VisitPages(b.pages, 1, << >>, 0)
         IN Got(Str(CleanedText(v.text)), v.caught)

AlchemarkHeader(i) == <<"\n", "\n", "--- AlcheMark AI: Page ", PageNo(i), " ---", "\n", "\n">>

\* the loop over page results inside the one try of extract_markdown_alchemark
RECURSIVE AlchemarkPages(_, _, _)
AlchemarkPages(pages, i, parts) ==
    IF i > Len(pages) THEN Got(Str(Strip(parts)), 0)
    ELSE IF pages[i].kind = "text"
         THEN AlchemarkPages(pages, i + 1, parts \o AlchemarkHeader(i) \o pages[i].s)
    ELSE Got(None, 1)

extract_markdown_alchemark(b) ==
    IF ~avail["ALCHEMARK"] THEN Got(None, 0)
    ELSE IF b.open = "error" THEN Got(None, 1)
    ELSE IF b.pages = << >> THEN Got(Str(<< >>), 0)
    ELSE AlchemarkPages(b.pages, 1, << >>)

InitAdapters ==
    /\ a_method \in EXTRACTION_METHODS
    /\ a_backend \in Behaviours
    /\ a_result = Got(None, 0)
    /\ avail \in [Flags -> BOOLEAN]
    /\ pc = "adapter"
    /\ pdf_path = [exists |-> TRUE, ext |-> ".PDF"]
    /\ methods_to_test = << >>
    /\ idx = 1
    /\ method_output_dir = "unset"
    /\ created = {}
    /\ files = Empty
    /\ writes = Empty
    /\ results = Empty
    /\ calls = [m \in ReqNames |-> 0]
    /\ last = [m \in ReqNames |-> Never]
    /\ summary_file = "absent"
    /\ returned = "pending"

\* the registry entry a_method is called on the document
Call(m, r) ==
    /\ pc = "adapter"
    /\ a_method = m
    /\ a_result' = r
    /\ pc' = "adapter_done"
    /\ UNCHANGED <<pdf_path, methods_to_test, avail, idx, method_output_dir, created,
                   files, writes, results, calls, last, summary_file, returned,
                   a_method, a_backend>>

CallPypdf == Call("pypdf", extract_text_pypdf(a_backend))

CallPymupdf == Call("pymupdf", extract_text_pymupdf(a_backend))

CallPypdfVisitor == Call("pypdf_visitor", extract_text_pypdf_visitor(a_backend))

CallOcr == Call("ocr", extract_text_ocr(a_backend))

CallUnstructuredFast == Call("unstructured_fast", extract_text_unstructured(a_backend))

CallUnstructuredOcr == Call("unstructured_ocr", extract_text_unstructured(a_backend))

CallPymupdf4llm == Call("pymupdf4llm", extract_markdown_pymupdf4llm(a_backend))

CallAlchemark == Call("alchemark", extract_markdown_alchemark(a_backend))

NextAdapters ==
    \/ CallPypdf
    \/ CallPymupdf
    \/ CallPypdfVisitor
    \/ CallOcr
    \/ CallUnstructuredFast
    \/ CallUnstructuredOcr
    \/ CallPymupdf4llm
    \/ CallAlchemark

SpecAdapters == InitAdapters /\ [][NextAdapters]_vars


---------------------------------------------------------------------------
(* Properties of the pipeline (checked under Spec) *)

Requested == {methods_to_test[i] : i \in 1..Len(methods_to_test)}

Recognized == Requested \cap EXTRACTION_METHODS

\* the entries of the request list the loop has already gone through
Processed(m) == \E i \in 1..(idx - 1) : methods_to_test[i] = m

Occurrences(m, n) == Cardinality({i \in 1..n : methods_to_test[i] = m})

NoCalls == \A m \in ReqNames : calls[m] = 0

\* the availability flag that belongs to a method, "none" when it has none
FlagOf(m) ==
    CASE m = "ocr" -> "PYTESSERACT"
      [] m \in {"unstructured_fast", "unstructured_ocr"} -> "UNSTRUCTURED"
      [] m = "pymupdf4llm" -> "PYMUPDF4LLM"
      [] m = "alchemark" -> "ALCHEMARK"
      [] OTHER -> "none"

FlagFalse(m) == FlagOf(m) \in Flags /\ ~avail[FlagOf(m)]

\* C1: a returned summary has a record for exactly the distinct requested
\* names that are in the registry: duplicates collapse to one entry and an
\* unrecognized name leaves no record.
C1_OneRecordPerRecognizedName ==
    returned = "results" => DOMAIN results = Recognized

\* a run over a list that names one registered method twice has returned
C1_Witness ==
    /\ returned = "results"
    /\ Len(methods_to_test) = 2
    /\ methods_to_test[1] = methods_to_test[2]
    /\ DOMAIN results = {methods_to_test[1]}

\* C2: a registered method whose availability flag is false is never invoked,
\* and once the loop has passed it its record is the failure with the fixed
\* error "Dependencies not met".
C2_UnavailableNotInvoked ==
    \A m \in ReqNames \cap EXTRACTION_METHODS :
        FlagFalse(m) =>
            /\ calls[m] = 0
            /\ Processed(m) =>
                  /\ m \in DOMAIN results
                  /\ results[m].success = FALSE
                  /\ results[m].error = <<"Dependencies not met">>
                  /\ results[m].output_file = NoFile

\* a finished run that had an unavailable method and an invoked one
C2_Witness ==
    /\ returned = "results"
    /\ \E m \in Recognized : FlagFalse(m) /\ m \in DOMAIN results
    /\ \E m \in Recognized : calls[m] = 1

\* C3: when the latest invocation of a method raised, its record is a failure
\* with a non-empty error, the run is not aborted, and the returned summary
\* still has a record for every recognized requested method.
C3_PerMethodIsolation ==
    \A m \in ReqNames :
        last[m].out.kind = "raise" =>
            /\ m \in DOMAIN results
            /\ results[m].success = FALSE
            /\ results[m].error # << >>
            /\ pc = "loop" \/ returned = "results"
            /\ returned = "results" => Recognized \subseteq DOMAIN results

\* one method raised, another one of the same run succeeded
C3_Witness ==
    /\ returned = "results"
    /\ \E m1, m2 \in Recognized :
          /\ m1 # m2
          /\ last[m1].out.kind = "raise"
          /\ results[m2].success

InvalidInput == ~pdf_path.exists \/ Lower(pdf_path.ext) # ".pdf"

\* C4 as stated: on a missing path or an unrecognized extension the run gives
\* no summary, invokes no adapter and creates no directory.
C4_Original ==
    InvalidInput => returned # "results" /\ NoCalls /\ created = {}

\* C4 amended: on a missing path the pipeline returns null with no adapter
\* invoked and no directory created; the extension is checked by the __main__
\* block only, which then does not call the pipeline; a direct call with an
\* existing path goes on whatever the extension.
C4_FailFastOnMissingPath ==
    [][/\ ~pdf_path.exists =>
            /\ NoCalls' /\ created' = {} /\ results' = Empty
            /\ returned' \in {"pending", "null", "not_called"}
            /\ pc = "call" => pc' = "done" /\ returned' = "null"
       /\ pc = "main" /\ InvalidInput => pc' = "done" /\ returned' = "not_called"
       /\ pc = "call" /\ pdf_path.exists => pc' = "mkdir"]_vars

\* the pipeline was called on a missing path and has returned null
C4_Witness ==
    ~pdf_path.exists /\ returned = "null" /\ pc = "done"

\* C5 as stated: once the path is accepted the run always returns the summary.
C5_Original ==
    pdf_path.exists /\ pc = "done" /\ returned # "not_called" => returned = "results"

\* C5 amended: once the path is accepted, the run returns the summary at the
\* end of the loop whatever the adapters, the file writes and the summary
\* write do; null is returned only when neither the per-run directory nor the
\* fallback output directory can be created, before any method runs.
C5_OnlyDirectoryFailureAborts ==
    /\ pdf_path.exists /\ pc = "done" /\ returned # "not_called"
          => returned \in {"results", "null"}
    /\ pdf_path.exists /\ returned = "null"
          => /\ method_output_dir = "root"
             /\ created = {}
             /\ idx = 1
             /\ NoCalls
             /\ results = Empty
    /\ returned = "results" => idx = Len(methods_to_test) + 1
    /\ pc = "loop" => returned = "pending"

\* the summary came back although the per-run directory could not be made,
\* an adapter raised, an output write failed and the summary write failed
C5_Witness ==
    /\ returned = "results"
    /\ method_output_dir = "root"
    /\ summary_file = "absent"
    /\ \E m \in ReqNames : last[m].out.kind = "raise"
    /\ \E m \in ReqNames : last[m].write = "failed"

\* C6: a record with success = true names an output file that this run has
\* written, in the run's output directory, called <method>.md for a Markdown
\* method and <method>.txt otherwise.
C6_SuccessHasWrittenFile ==
    \A m \in DOMAIN results :
        results[m].success =>
            LET f == results[m].output_file
            IN /\ f # NoFile
               /\ f \in DOMAIN files
               /\ f \in DOMAIN writes /\ writes[f] >= 1
               /\ f.dir = method_output_dir
               /\ f.method = m
               /\ f.ext = IF m \in MARKDOWN_OUTPUT_METHODS THEN "md" ELSE "txt"

\* a Markdown method and a text method both succeeded
C6_Witness ==
    /\ returned = "results"
    /\ \E m \in DOMAIN results : results[m].success /\ m \in MARKDOWN_OUTPUT_METHODS
    /\ \E m \in DOMAIN results : results[m].success /\ m \notin MARKDOWN_OUTPUT_METHODS

\* C7: a record with success = false has no output file, on every failure path.
C7_FailureHasNoFile ==
    \A m \in DOMAIN results :
        ~results[m].success => results[m].output_file = NoFile

\* a failed write next to a dependency failure
C7_Witness ==
    /\ returned = "results"
    /\ \E m \in DOMAIN results : last[m].write = "failed" /\ ~results[m].success
    /\ \E m \in DOMAIN results : results[m].error = DEPENDENCIES_NOT_MET

\* C8 as stated: a record, once in the summary, stays the same for the rest of
\* the run, and no output file is written more than once.
C8_Original ==
    [][/\ \A m \in DOMAIN results : m \in DOMAIN results' /\ results'[m] = results[m]
       /\ \A f \in DOMAIN writes' : writes'[f] <= 1]_vars

\* C8 amended: a record changes only when the loop processes a later entry of
\* the request list with the same name, which replaces it; an output file is
\* written at most once per entry of the list that names its method.
C8_RecordReplacedOnlyByRepeat ==
    [][/\ \A m \in DOMAIN results :
            /\ m \in DOMAIN results'
            /\ results'[m] # results[m] =>
                  /\ pc = "loop" /\ idx <= Len(methods_to_test)
                  /\ methods_to_test[idx] = m
                  /\ Occurrences(m, idx - 1) >= 1
       /\ \A f \in DOMAIN writes' : writes'[f] <= Occurrences(f.method, idx' - 1)]_vars

\* a method requested twice whose second run replaced the first record
C8_Witness ==
    /\ returned = "results"
    /\ \E m \in DOMAIN results :
          /\ calls[m] = 2
          /\ results[m].success
          /\ writes[results[m].output_file] = 1

\* C9: a returned string, even empty or blank, is a success and is written as
\* it is; a returned value of another type is a failure with the type error
\* and is never written; a failed write turns the success into a failure with
\* the write error appended.
C9_OutcomeClassification ==
    \A m \in ReqNames :
        LET l == last[m]
            path == OutputFilepath(method_output_dir, m)
        IN l.out.kind = "return" =>
             /\ l.out.value.tag = "str" =>
                   /\ l.write \in {"ok", "failed"}
                   /\ l.write = "ok" =>
                         /\ results[m].success
                         /\ results[m].error = << >>
                         /\ path \in DOMAIN files
                         /\ files[path] = l.out.value.s
                   /\ l.write = "failed" =>
                         /\ ~results[m].success
                         /\ results[m].error = <<" | File write error">>
             /\ l.out.value.tag = "other" =>
                   /\ l.write = "none"
                   /\ ~results[m].success
                   /\ results[m].error = <<"returned non-string, non-None type">>
                   /\ \A f \in DOMAIN files : files[f] # PyStr(l.out.value)

\* a blank string was returned and written as it is, next to a non-string
C9_Witness ==
    /\ returned = "results"
    /\ \E m \in ReqNames :
          /\ last[m].out = Return(Str(<<" ">>))
          /\ last[m].write = "ok"
          /\ files[OutputFilepath(method_output_dir, m)] = <<" ">>
    /\ \E m \in ReqNames : last[m].out.kind = "return" /\ last[m].out.value.tag = "other"

---------------------------------------------------------------------------
(* Properties of the adapters (checked under SpecAdapters) *)

AdapterDone == pc = "adapter_done"

ErrorPages == {i \in 1..Len(a_backend.pages) : a_backend.pages[i].kind # "text"}

EngineMissingPages ==
    {i \in 1..Len(a_backend.pages) : a_backend.pages[i].kind = "engine_missing"}

\* whether sequence part occurs in sequence s
Contains(s, part) ==
    \E k \in 0..(Len(s) - Len(part)) : SubSeq(s, k + 1, k + Len(part)) = part

\* C10 as stated: an adapter whose backend raised anywhere returns null.
C10_Original ==
    AdapterDone /\ a_result.caught > 0 => a_result.ret = None

\* C10 amended: an adapter returns null when its backend raises outside a
\* per-page handler: always for pypdf, pymupdf, unstructured, pymupdf4llm and
\* alchemark, for OCR when rendering fails or the engine is missing on a page,
\* for pypdf_visitor when the document cannot be read.  Any other exception on
\* an OCR page, and any exception on a pypdf_visitor page, is replaced by an
\* error marker and the adapter returns a string, which the pipeline counts
\* as a success.
C10_NullUnlessPageHandler ==
    AdapterDone =>
        /\ a_backend.open = "error" => a_result.ret = None
        /\ a_method \notin {"ocr", "pypdf_visitor"} /\ a_result.caught > 0
              => a_result.ret = None
        /\ a_method \notin {"ocr", "pypdf_visitor"} /\ ErrorPages # {}
              => a_result.ret = None
        /\ a_method = "ocr" /\ EngineMissingPages # {} => a_result.ret = None
        /\ a_method = "ocr" /\ avail["PYTESSERACT"] /\ a_backend.open = "ok"
                /\ EngineMissingPages = {}
              => /\ a_result.ret.tag = "str"
                 /\ a_result.caught = Cardinality(ErrorPages)
                 /\ \A i \in ErrorPages : Contains(a_result.ret.s, OcrErrorMarker(i))
        /\ a_method = "pypdf_visitor" /\ a_backend.open = "ok"
              => /\ a_result.ret.tag = "str"
                 /\ a_result.caught = Cardinality(ErrorPages)
        /\ a_result.ret = None => ~Classify(Return(a_result.ret)).success
        /\ a_result.ret.tag = "str" => Classify(Return(a_result.ret)).success

\* recognition failed on an OCR page and the adapter still returned text
C10_Witness ==
    /\ AdapterDone
    /\ a_method = "ocr"
    /\ a_result.caught > 0
    /\ a_result.ret.tag = "str"

=============================================================================
